---- MODULE Spec2Model ----
(***************************************************************************)
(* Credential store and session gate of the KLIMATA dashboard (src/app.py).*)
(*                                                                         *)
(* The store is the sqlite table users(username TEXT PRIMARY KEY,          *)
(* password_hash TEXT); the session gate is st.session_state (one per      *)
(* browser session) together with the router at the bottom of the script.  *)
(*                                                                         *)
(* Four specifications share the variables:                                *)
(*   SpecStore  the store functions called directly, one call per step;    *)
(*   Spec       the user events of every session, one handler per step     *)
(*              (the script run to its end or to st.rerun(), plus the      *)
(*              rerun);                                                    *)
(*   SpecConc   one create_user call per client (a script run of some      *)
(*              session), the calls interleaved statement by statement;    *)
(*   SpecShared the user events of several sessions on one table.          *)
(***************************************************************************)
EXTENDS Integers, FiniteSets, Sequences, TLC

VARIABLES
    users,          \* the rows of table users: records [username, password_hash]
    session_state,  \* session -> st.session_state, a record whose domain is the keys present
    view,           \* session -> the page function the router called in the latest script run
    last,           \* the latest call or user event, with its inputs and its outcome
    created,        \* username -> the password of a successful create_user not yet
                    \* followed by an update or delete of that username (history)
    call,           \* client -> its create_user call: where it is, its arguments, its result
    db_lock         \* the client whose connection holds sqlite's write lock on users.db

vars == <<users, session_state, view, last, created, call, db_lock>>

----------------------------------------------------------------------------
(* Bounds *)

NumUsers == 2
NumPasswords == 2
NumSessions == 1
NumClients == 2

UsernamePool == <<"alice", "bob", "carol", "dave">>
PasswordPool == <<"secret1", "wrong", "p1", "p2">>

\* What a text input can hold: the empty string or a typed value.
Usernames == {""} \cup {UsernamePool[i] : i \in 1..NumUsers}
Passwords == {""} \cup {PasswordPool[i] : i \in 1..NumPasswords}
Sessions == 1..NumSessions
Clients == 1..NumClients

NoInput == "<none>"
NoSession == 0

----------------------------------------------------------------------------
(* Credential store *)

\* hashlib.sha256(str.encode(password)).hexdigest() on the passwords of the model.
Sha256Hex ==
    [p \in {""} \cup {PasswordPool[i] : i \in 1..Len(PasswordPool)} |->
        CASE p = ""        -> "e3b0c44298fc1c149afbf4c8996fb92427ae41e4649b934ca495991b7852b855"
          [] p = "secret1" -> "5b11618c2e44027877d0cd0921ed166b9f176f50587fc91e7534dd2946db77d6"
          [] p = "wrong"   -> "8810ad581e59f2bc3928b261707a71308f7e139eb04820366dc4d5c18d980225"
          [] p = "p1"      -> "f64551fcd6f07823cb87971cfb91446425da18286b3ab1ef935e0cbd7a69f68a"
          [] p = "p2"      -> "3946ca64ff78d93ca61090a437cbb6b3d2ca0d488f5f9ccf3059608368b27693"]

hash_password(password) ==
    Sha256Hex[password]

\* The table after CREATE TABLE IF NOT EXISTS on a fresh users.db.
init_db == {}

\* The rows a WHERE username = ? selects.
rows_of(tbl, username) == {r \in tbl : r.username = username}

create_user_no_primary_key(tbl, username, password) ==
    [ret |-> TRUE,
     users |-> tbl \cup {[username |-> username, password_hash |-> hash_password(password)]}]

\* INSERT, commit, return True; the PRIMARY KEY raises IntegrityError on a username
\* that has a row, and the call returns False with nothing written.
create_user(tbl, username, password) ==
    IF rows_of(tbl, username) # {}
    THEN [ret |-> FALSE, users |-> tbl]
    ELSE [ret |-> TRUE,
          users |-> tbl \cup {[username |-> username,
                               password_hash |-> hash_password(password)]}]

check_user_password_any_row(tbl, username, password) ==
    rows_of(tbl, username) # {}

check_user_password_missing_ok(tbl, username, password) ==
    IF rows_of(tbl, username) # {}
    THEN LET data == CHOOSE r \in rows_of(tbl, username) : TRUE
         IN  data.password_hash = hash_password(password)
    ELSE TRUE

\* SELECT password_hash ... fetchone(); a row compares its hash, no row is False.
check_user_password(tbl, username, password) ==
    IF rows_of(tbl, username) # {}
    THEN LET data == CHOOSE r \in rows_of(tbl, username) : TRUE
         IN  data.password_hash = hash_password(password)
    ELSE FALSE

update_user_password_no_commit(tbl, username, new_password) ==
    [ret |-> TRUE, users |-> tbl]

update_user_password_upsert(tbl, username, new_password) ==
    [ret |-> TRUE,
     users |-> (tbl \ rows_of(tbl, username))
                   \cup {[username |-> username,
                          password_hash |-> hash_password(new_password)]}]

update_user_password_all_rows(tbl, username, new_password) ==
    [ret |-> TRUE,
     users |-> {[r EXCEPT !.password_hash = hash_password(new_password)] : r \in tbl}]

\* UPDATE ... WHERE username = ?, commit, return True (also when no row matched).
update_user_password(tbl, username, new_password) ==
    [ret |-> TRUE,
     users |-> {IF r.username = username
                THEN [r EXCEPT !.password_hash = hash_password(new_password)]
                ELSE r : r \in tbl}]

delete_user_no_commit(tbl, username) ==
    [ret |-> TRUE, users |-> tbl]

delete_user_all_rows(tbl, username) ==
    [ret |-> TRUE, users |-> IF rows_of(tbl, username) # {} THEN {} ELSE tbl]

\* DELETE ... WHERE username = ?, commit, return True (also when no row matched).
delete_user(tbl, username) ==
    [ret |-> TRUE, users |-> tbl \ rows_of(tbl, username)]

----------------------------------------------------------------------------
(* The record of the latest call or event *)

Event(event, s, username, password, confirm, ret, alert) ==
    [event |-> event, session |-> s, username |-> username, password |-> password,
     confirm |-> confirm, ret |-> ret, alert |-> alert]

NoAlert == "<no alert>"

\* The record of an UPDATE or DELETE call: also the cursor's rowcount, the number of
\* rows the statement matched.
StoreEvent(event, username, password, ret, rowcount) ==
    [event |-> event, session |-> NoSession, username |-> username,
     password |-> password, confirm |-> NoInput, ret |-> ret, alert |-> NoAlert,
     rowcount |-> rowcount]

----------------------------------------------------------------------------
Idle == [pc |-> "idle", username |-> NoInput, password |-> NoInput, ret |-> FALSE]

(* Initial state: init_db() has run and every session has run the script once *)

Init ==
    /\ users = init_db
    /\ session_state = [s \in Sessions |-> [logged_in |-> FALSE, page |-> "Login"]]
    /\ view = [s \in Sessions |-> "show_login_page"]
    /\ last = Event("start", NoSession, NoInput, NoInput, NoInput, TRUE, NoAlert)
    /\ created = [u \in Usernames |-> NoInput]
    /\ call = [c \in Clients |-> Idle]
    /\ db_lock = NoSession

----------------------------------------------------------------------------
(* SpecStore: the store functions called directly *)

CallCreate(u, p) ==
    LET r == create_user(users, u, p) IN
    /\ users' = r.users
    /\ created' = IF r.ret THEN [created EXCEPT ![u] = p] ELSE created
    /\ last' = Event("create_user", NoSession, u, p, NoInput, r.ret, NoAlert)
    /\ UNCHANGED <<session_state, view, call, db_lock>>

CallCheck(u, p) ==
    /\ last' = Event("check_user_password", NoSession, u, p, NoInput,
                     check_user_password(users, u, p), NoAlert)
    /\ UNCHANGED <<users, created, session_state, view, call, db_lock>>

CallUpdate(u, p) ==
    LET r == update_user_password(users, u, p) IN
    /\ users' = r.users
    /\ created' = [created EXCEPT ![u] = NoInput]
    /\ last' = StoreEvent("update_user_password", u, p, r.ret,
                          Cardinality(rows_of(users, u)))
    /\ UNCHANGED <<session_state, view, call, db_lock>>

CallDelete(u) ==
    LET r == delete_user(users, u) IN
    /\ users' = r.users
    /\ created' = [created EXCEPT ![u] = NoInput]
    /\ last' = StoreEvent("delete_user", u, NoInput, r.ret,
                          Cardinality(rows_of(users, u)))
    /\ UNCHANGED <<session_state, view, call, db_lock>>

\* The store treats the empty username as any other string: the calls take the
\* typed names, and any password.
StoreUsernames == Usernames \ {""}

NextStore ==
    \/ \E u \in StoreUsernames, p \in Passwords : CallCreate(u, p)
    \/ \E u \in StoreUsernames, p \in Passwords : CallCheck(u, p)
    \/ \E u \in StoreUsernames, p \in Passwords : CallUpdate(u, p)
    \/ \E u \in StoreUsernames : CallDelete(u)

SpecStore == Init /\ [][NextStore]_vars

----------------------------------------------------------------------------
(* Session gate: st.session_state and the router *)

\* st.session_state.<key> = value
SetKey(ss, key, value) ==
    [k \in DOMAIN ss \cup {key} |-> IF k = key THEN value ELSE ss[k]]

\* st.session_state.pop(key, None)
PopKey(ss, key) ==
    [k \in DOMAIN ss \ {key} |-> ss[k]]

\* The if/elif chain at the bottom of the script: the page function one run calls.
main_app_router(ss) ==
    IF ss.logged_in
    THEN IF ss.page = "Dashboard" THEN "build_dashboard"
         ELSE IF ss.page = "Manage Account" THEN "show_manage_account_page"
         ELSE "nothing"
    ELSE IF ss.page = "Login" THEN "show_login_page"
         ELSE IF ss.page = "Sign Up" THEN "show_signup_page"
         ELSE "nothing"

\* st.rerun() after session s's state became ss: the script runs again from the top.
rerun(s, ss) ==
    /\ session_state' = [session_state EXCEPT ![s] = ss]
    /\ view' = [view EXCEPT ![s] = main_app_router(ss)]

\* The three assignments of a log out, before its st.rerun().
logged_out_keep_username(ss) ==
    SetKey(SetKey(ss, "logged_in", FALSE), "page", "Login")

logged_out_keep_page(ss) ==
    PopKey(SetKey(ss, "logged_in", FALSE), "username")

logged_out(ss) ==
    SetKey(PopKey(SetKey(ss, "logged_in", FALSE), "username"), "page", "Login")

\* The texts of the st.error and st.success calls (the login error without the
\* emoji that precedes it in the source).
LoginError == "User not known or password incorrect"
SignupEmpty == "Please fill in all fields."
SignupMismatch == "Passwords do not match."
SignupTaken == "Username already exists."
SignupSuccess == "Account created successfully! Please log in."
UpdateEmpty == "Please fill in both fields."
UpdateMismatch == "New passwords do not match."
UpdateSuccess == "Password updated successfully!"

Pages == {"Login", "Sign Up", "Dashboard", "Manage Account"}
LoggedOutLogin == [logged_in |-> FALSE, page |-> "Login"]
LoggedOutSignUp == [logged_in |-> FALSE, page |-> "Sign Up"]

MenuOptions == {"City Overview", "Barangay Deep Dive", "Manage Account", "Log Out"}

----------------------------------------------------------------------------
(* Spec: one user event of one session per step *)

login_submit_sets_username_first(s, username, password) ==
    /\ view[s] = "show_login_page"
    /\ IF check_user_password(users, username, password)
       THEN /\ rerun(s, SetKey(SetKey(SetKey(session_state[s], "logged_in", TRUE),
                                      "username", username), "page", "Dashboard"))
            /\ last' = Event("login", s, username, password, NoInput, TRUE, NoAlert)
       ELSE /\ session_state' = [session_state EXCEPT
                                   ![s] = SetKey(session_state[s], "username", username)]
            /\ UNCHANGED view
            /\ last' = Event("login", s, username, password, NoInput, FALSE, LoginError)
    /\ UNCHANGED <<users, created, call, db_lock>>

login_submit_no_username(s, username, password) ==
    /\ view[s] = "show_login_page"
    /\ IF check_user_password(users, username, password)
       THEN /\ rerun(s, SetKey(SetKey(session_state[s], "logged_in", TRUE),
                               "page", "Dashboard"))
            /\ last' = Event("login", s, username, password, NoInput, TRUE, NoAlert)
       ELSE /\ UNCHANGED <<session_state, view>>
            /\ last' = Event("login", s, username, password, NoInput, FALSE, LoginError)
    /\ UNCHANGED <<users, created, call, db_lock>>

login_submit_distinct_errors(s, username, password) ==
    /\ view[s] = "show_login_page"
    /\ IF check_user_password(users, username, password)
       THEN /\ rerun(s, SetKey(SetKey(SetKey(session_state[s], "logged_in", TRUE),
                                      "username", username), "page", "Dashboard"))
            /\ last' = Event("login", s, username, password, NoInput, TRUE, NoAlert)
       ELSE /\ UNCHANGED <<session_state, view>>
            /\ last' = Event("login", s, username, password, NoInput, FALSE,
                             IF rows_of(users, username) = {}
                             THEN "User not known" ELSE "Password incorrect")
    /\ UNCHANGED <<users, created, call, db_lock>>

login_submit_keeps_page(s, username, password) ==
    /\ view[s] = "show_login_page"
    /\ IF check_user_password(users, username, password)
       THEN /\ rerun(s, SetKey(SetKey(session_state[s], "logged_in", TRUE),
                               "username", username))
            /\ last' = Event("login", s, username, password, NoInput, TRUE, NoAlert)
       ELSE /\ UNCHANGED <<session_state, view>>
            /\ last' = Event("login", s, username, password, NoInput, FALSE, LoginError)
    /\ UNCHANGED <<users, created, call, db_lock>>

\* show_login_page: the "Log In" button of login_form.
login_submit(s, username, password) ==
    /\ view[s] = "show_login_page"
    /\ IF check_user_password(users, username, password)
       THEN /\ rerun(s, SetKey(SetKey(SetKey(session_state[s], "logged_in", TRUE),
                                      "username", username), "page", "Dashboard"))
            /\ last' = Event("login", s, username, password, NoInput, TRUE, NoAlert)
       ELSE /\ UNCHANGED <<session_state, view>>
            /\ last' = Event("login", s, username, password, NoInput, FALSE, LoginError)
    /\ UNCHANGED <<users, created, call, db_lock>>

\* show_login_page: the "Need an account? Sign Up" button.
login_sign_up_click(s) ==
    /\ view[s] = "show_login_page"
    /\ rerun(s, SetKey(session_state[s], "page", "Sign Up"))
    /\ last' = Event("sign_up_click", s, NoInput, NoInput, NoInput, TRUE, NoAlert)
    /\ UNCHANGED <<users, created, call, db_lock>>

signup_submit_logs_in(s, username, password, confirm_password) ==
    /\ view[s] = "show_signup_page"
    /\ IF username = "" \/ password = "" \/ confirm_password = ""
       THEN /\ UNCHANGED <<users, session_state, view>>
            /\ last' = Event("signup", s, username, password, confirm_password,
                             FALSE, SignupEmpty)
       ELSE IF password # confirm_password
       THEN /\ UNCHANGED <<users, session_state, view>>
            /\ last' = Event("signup", s, username, password, confirm_password,
                             FALSE, SignupMismatch)
       ELSE LET r == create_user(users, username, password) IN
            /\ users' = r.users
            /\ IF r.ret
               THEN /\ rerun(s, SetKey(SetKey(SetKey(session_state[s], "logged_in", TRUE),
                                              "username", username), "page", "Dashboard"))
                    /\ last' = Event("signup", s, username, password, confirm_password,
                                     TRUE, SignupSuccess)
               ELSE /\ UNCHANGED <<session_state, view>>
                    /\ last' = Event("signup", s, username, password, confirm_password,
                                     FALSE, SignupTaken)
    /\ UNCHANGED <<created, call, db_lock>>

signup_submit_no_confirm_check(s, username, password, confirm_password) ==
    /\ view[s] = "show_signup_page"
    /\ IF username = "" \/ password = "" \/ confirm_password = ""
       THEN /\ UNCHANGED <<users, session_state, view>>
            /\ last' = Event("signup", s, username, password, confirm_password,
                             FALSE, SignupEmpty)
       ELSE LET r == create_user(users, username, password) IN
            /\ users' = r.users
            /\ IF r.ret
               THEN /\ rerun(s, SetKey(session_state[s], "page", "Login"))
                    /\ last' = Event("signup", s, username, password, confirm_password,
                                     TRUE, SignupSuccess)
               ELSE /\ UNCHANGED <<session_state, view>>
                    /\ last' = Event("signup", s, username, password, confirm_password,
                                     FALSE, SignupTaken)
    /\ UNCHANGED <<created, call, db_lock>>

\* show_signup_page: the "Create Account" button of signup_form.
signup_submit(s, username, password, confirm_password) ==
    /\ view[s] = "show_signup_page"
    /\ IF username = "" \/ password = "" \/ confirm_password = ""
       THEN /\ UNCHANGED <<users, session_state, view>>
            /\ last' = Event("signup", s, username, password, confirm_password,
                             FALSE, SignupEmpty)
       ELSE IF password # confirm_password
       THEN /\ UNCHANGED <<users, session_state, view>>
            /\ last' = Event("signup", s, username, password, confirm_password,
                             FALSE, SignupMismatch)
       ELSE LET r == create_user(users, username, password) IN
            /\ users' = r.users
            /\ IF r.ret
               THEN /\ rerun(s, SetKey(session_state[s], "page", "Login"))
                    /\ last' = Event("signup", s, username, password, confirm_password,
                                     TRUE, SignupSuccess)
               ELSE /\ UNCHANGED <<session_state, view>>
                    /\ last' = Event("signup", s, username, password, confirm_password,
                                     FALSE, SignupTaken)
    /\ UNCHANGED <<created, call, db_lock>>

\* show_signup_page: the "Back to Login" button.
signup_back_click(s) ==
    /\ view[s] = "show_signup_page"
    /\ rerun(s, SetKey(session_state[s], "page", "Login"))
    /\ last' = Event("back_to_login", s, NoInput, NoInput, NoInput, TRUE, NoAlert)
    /\ UNCHANGED <<users, created, call, db_lock>>

dashboard_select_no_rerun(s, selected) ==
    /\ view[s] = "build_dashboard"
    /\ IF selected = "Manage Account"
       THEN rerun(s, SetKey(session_state[s], "page", "Manage Account"))
       ELSE IF selected = "Log Out"
       THEN /\ session_state' = [session_state EXCEPT ![s] = logged_out(session_state[s])]
            /\ UNCHANGED view
       ELSE UNCHANGED <<session_state, view>>
    /\ last' = Event(IF selected = "Log Out" THEN "dashboard_log_out" ELSE "select",
                     s, selected, NoInput, NoInput, TRUE, NoAlert)
    /\ UNCHANGED <<users, created, call, db_lock>>

\* build_dashboard: a choice in the sidebar's option_menu.
dashboard_select(s, selected) ==
    /\ view[s] = "build_dashboard"
    /\ IF selected = "Manage Account"
       THEN rerun(s, SetKey(session_state[s], "page", "Manage Account"))
       ELSE IF selected = "Log Out"
       THEN rerun(s, logged_out(session_state[s]))
       ELSE UNCHANGED <<session_state, view>>
    /\ last' = Event(IF selected = "Log Out" THEN "dashboard_log_out" ELSE "select",
                     s, selected, NoInput, NoInput, TRUE, NoAlert)
    /\ UNCHANGED <<users, created, call, db_lock>>

manage_back_click_drops_username(s) ==
    /\ view[s] = "show_manage_account_page"
    /\ rerun(s, SetKey(PopKey(session_state[s], "username"), "page", "Dashboard"))
    /\ last' = Event("back_to_dashboard", s, NoInput, NoInput, NoInput, TRUE, NoAlert)
    /\ UNCHANGED <<users, created, call, db_lock>>

\* show_manage_account_page: the sidebar's "Back to Dashboard" button.
manage_back_click(s) ==
    /\ view[s] = "show_manage_account_page"
    /\ rerun(s, SetKey(session_state[s], "page", "Dashboard"))
    /\ last' = Event("back_to_dashboard", s, NoInput, NoInput, NoInput, TRUE, NoAlert)
    /\ UNCHANGED <<users, created, call, db_lock>>

\* show_manage_account_page: the sidebar's "Log Out" button.
manage_log_out_click(s) ==
    /\ view[s] = "show_manage_account_page"
    /\ rerun(s, logged_out(session_state[s]))
    /\ last' = Event("manage_log_out", s, NoInput, NoInput, NoInput, TRUE, NoAlert)
    /\ UNCHANGED <<users, created, call, db_lock>>

\* show_manage_account_page: the "Update Password" button of update_password_form.
manage_update_submit(s, new_password, confirm_new_password) ==
    /\ view[s] = "show_manage_account_page"
    /\ IF new_password = "" \/ confirm_new_password = ""
       THEN /\ UNCHANGED users
            /\ last' = Event("update_password", s, NoInput, new_password,
                             confirm_new_password, FALSE, UpdateEmpty)
       ELSE IF new_password # confirm_new_password
       THEN /\ UNCHANGED users
            /\ last' = Event("update_password", s, NoInput, new_password,
                             confirm_new_password, FALSE, UpdateMismatch)
       ELSE LET r == update_user_password(users, session_state[s]["username"],
                                          new_password) IN
            /\ users' = r.users
            /\ last' = Event("update_password", s, session_state[s]["username"],
                             new_password, confirm_new_password, r.ret, UpdateSuccess)
    /\ UNCHANGED <<session_state, view, created, call, db_lock>>

Next ==
    \/ \E s \in Sessions, u \in Usernames, p \in Passwords : login_submit(s, u, p)
    \/ \E s \in Sessions : login_sign_up_click(s)
    \/ \E s \in Sessions, u \in Usernames, p \in Passwords, p2 \in Passwords :
          signup_submit(s, u, p, p2)
    \/ \E s \in Sessions : signup_back_click(s)
    \/ \E s \in Sessions, selected \in MenuOptions : dashboard_select(s, selected)
    \/ \E s \in Sessions : manage_back_click(s)
    \/ \E s \in Sessions : manage_log_out_click(s)
    \/ \E s \in Sessions, p \in Passwords, p2 \in Passwords :
          manage_update_submit(s, p, p2)

Spec == Init /\ [][Next]_vars

----------------------------------------------------------------------------
(* SpecConc: create_user calls of several clients, statement by statement. *)
(* Each call has its own connection.  The INSERT takes sqlite's write lock *)
(* (one holder at a time; another writer waits in the busy handler, which  *)
(* is modelled as waiting without the timeout), checks the primary key     *)
(* against the committed rows and keeps the lock until commit or close.    *)

\* sqlite3.connect('users.db'); conn.cursor()
conc_connect(c, username, password) ==
    /\ call[c].pc = "idle"
    /\ call' = [call EXCEPT ![c] = [pc |-> "connected", username |-> username,
                                    password |-> password, ret |-> FALSE]]
    /\ UNCHANGED <<users, db_lock, session_state, view, last, created>>

conc_execute_unlocked(c) ==
    /\ call[c].pc = "connected"
    /\ call' = [call EXCEPT ![c].pc =
                   IF rows_of(users, call[c].username) # {}
                   THEN "integrity_error" ELSE "inserted"]
    /\ UNCHANGED <<users, db_lock, session_state, view, last, created>>

\* c.execute("INSERT ..."): raises IntegrityError or leaves the row uncommitted.
conc_execute(c) ==
    /\ call[c].pc = "connected"
    /\ db_lock = NoSession
    /\ db_lock' = c
    /\ call' = [call EXCEPT ![c].pc =
                   IF rows_of(users, call[c].username) # {}
                   THEN "integrity_error" ELSE "inserted"]
    /\ UNCHANGED <<users, session_state, view, last, created>>

\* conn.commit(): the row becomes visible and the lock is released.
conc_commit(c) ==
    /\ call[c].pc = "inserted"
    /\ users' = users \cup {[username |-> call[c].username,
                             password_hash |-> hash_password(call[c].password)]}
    /\ db_lock' = IF db_lock = c THEN NoSession ELSE db_lock
    /\ call' = [call EXCEPT ![c].pc = "committed"]
    /\ UNCHANGED <<session_state, view, last, created>>

\* return True, or except IntegrityError: return False; finally conn.close().
conc_return(c) ==
    /\ call[c].pc \in {"committed", "integrity_error"}
    /\ call' = [call EXCEPT ![c].pc = "returned",
                            ![c].ret = (call[c].pc = "committed")]
    /\ db_lock' = IF db_lock = c THEN NoSession ELSE db_lock
    /\ UNCHANGED <<users, session_state, view, last, created>>

NextConc ==
    \/ \E c \in Clients, u \in Usernames, p \in Passwords : conc_connect(c, u, p)
    \/ \E c \in Clients : conc_execute(c)
    \/ \E c \in Clients : conc_commit(c)
    \/ \E c \in Clients : conc_return(c)

SpecConc == Init /\ [][NextConc]_vars

----------------------------------------------------------------------------
(* Properties *)

\* C1 (SpecStore): create_user returns True exactly when the username has no row,
\* a create_user right after a successful one for the same username returns False,
\* and the table never holds two rows with one username.
C1_CreateUniqueness ==
    /\ [](\A r1, r2 \in users : r1.username = r2.username => r1 = r2)
    /\ [][last'.event = "create_user" =>
            /\ last'.ret = (rows_of(users, last'.username) = {})
            /\ Cardinality(rows_of(users', last'.username)) = 1
            /\ (last.event = "create_user" /\ last.ret
                   /\ last.username = last'.username => ~last'.ret)]_vars

\* A second create_user for a username created before, with another password, refused.
C1_Witness ==
    /\ last.event = "create_user"
    /\ ~last.ret
    /\ created[last.username] \notin {NoInput, last.password}
    /\ Cardinality(rows_of(users, last.username)) = 1

\* C2 (SpecStore): while a username created with password p has seen no update or
\* delete, check_user_password accepts p and refuses every other password.
C2_VerifyAfterCreate ==
    \A u \in Usernames :
        created[u] # NoInput =>
            /\ \A q \in Passwords : check_user_password(users, u, q) = (q = created[u])
            /\ (last.event = "check_user_password" /\ last.username = u
                   => last.ret = (last.password = created[u]))

\* A wrong password checked, and refused, for a username created and untouched since.
C2_Witness ==
    /\ last.event = "check_user_password"
    /\ created[last.username] \notin {NoInput, last.password}
    /\ ~last.ret
    /\ \E q \in Passwords : check_user_password(users, last.username, q)

\* C3 (SpecConc): of the create_user calls made for one username, at most one returns
\* True; once all of them have returned exactly one has; and the row of the username
\* holds the hash of the call that returned True.
C3_ConcurrentCreate ==
    \A u \in Usernames :
        LET callers == {c \in Clients : call[c].pc # "idle" /\ call[c].username = u}
            winners == {c \in callers : call[c].pc = "returned" /\ call[c].ret}
        IN  /\ Cardinality(winners) <= 1
            /\ (callers # {} /\ \A c \in callers : call[c].pc = "returned")
                   => Cardinality(winners) = 1
            /\ \A c \in winners :
                   rows_of(users, u) = {[username |-> u,
                                         password_hash |-> hash_password(call[c].password)]}

\* Two calls for one username with different passwords overlapped: the second connected
\* before the first returned; one returned True, the other False.
C3_Witness ==
    \E c1, c2 \in Clients :
        /\ c1 # c2
        /\ call[c1].username = call[c2].username
        /\ call[c1].password # call[c2].password
        /\ call[c1].pc = "returned" /\ call[c1].ret
        /\ call[c2].pc = "returned" /\ ~call[c2].ret

\* C4 (Spec): the key 'username' is in a session's state exactly when logged_in is True.
C4_UsernameIffLoggedIn ==
    \A s \in Sessions :
        ("username" \in DOMAIN session_state[s]) <=> session_state[s].logged_in

\* A session whose login has just set both keys, the username being the one typed.
C4_Witness ==
    /\ last.event = "login"
    /\ session_state[last.session].logged_in
    /\ "username" \in DOMAIN session_state[last.session]
    /\ session_state[last.session]["username"] = last.username

\* C5 (Spec): a session that is not logged in has the login or the sign-up page
\* rendered, and the router calls neither build_dashboard nor
\* show_manage_account_page for it whatever its page is.
C5_GuardedViews ==
    /\ \A s \in Sessions :
           ~session_state[s].logged_in =>
               view[s] \in {"show_login_page", "show_signup_page"}
    /\ \A pg \in Pages \cup {"City Overview", ""} :
           main_app_router([logged_in |-> FALSE, page |-> pg])
               \notin {"build_dashboard", "show_manage_account_page"}

\* A session just logged out from the dashboard: the login page is what is rendered.
C5_Witness ==
    /\ last.event = "dashboard_log_out"
    /\ ~session_state[last.session].logged_in
    /\ view[last.session] = "show_login_page"

\* C6 (Spec): a login submitted with a username and password that check_user_password
\* accepts is made from LoggedOut/Login and leaves the session logged in as that
\* username on the dashboard; so does a login with the pair just signed up.
C6_LoginSuccess ==
    [][last'.event = "login" =>
         LET s == last'.session IN
         /\ check_user_password(users, last'.username, last'.password) =>
                /\ session_state[s] = LoggedOutLogin
                /\ last'.ret
                /\ session_state'[s] = [logged_in |-> TRUE, page |-> "Dashboard",
                                        username |-> last'.username]
                /\ view'[s] = "build_dashboard"
                /\ users' = users
         /\ (last.event = "signup" /\ last.ret /\ last.username = last'.username
                /\ last.password = last'.password) =>
                /\ session_state'[s].logged_in
                /\ session_state'[s].page = "Dashboard"]_vars

\* A login accepted right after the sign-up of the same username and password.
C6_Witness ==
    /\ last.event = "login"
    /\ last.ret
    /\ session_state[last.session] = [logged_in |-> TRUE, page |-> "Dashboard",
                                      username |-> last.username]
    /\ check_user_password(users, last.username, last.password)

\* C7 (Spec): a login submitted with a username and password that check_user_password
\* refuses is made from LoggedOut/Login and changes neither the session, the rendered
\* page nor the store, and shows the invalid-credentials error.
C7_LoginFailure ==
    [][(last'.event = "login"
          /\ ~check_user_password(users, last'.username, last'.password)) =>
         LET s == last'.session IN
         /\ session_state[s] = LoggedOutLogin
         /\ session_state' = session_state
         /\ "username" \notin DOMAIN session_state'[s]
         /\ view' = view
         /\ users' = users
         /\ ~last'.ret
         /\ last'.alert = LoginError]_vars

\* A wrong password refused for a username that has a row.
C7_Witness ==
    /\ last.event = "login"
    /\ ~last.ret
    /\ last.alert = LoginError
    /\ rows_of(users, last.username) # {}
    /\ session_state[last.session] = LoggedOutLogin

\* The error a sign-up with these fields is to show, NoAlert when it is to succeed.
SignupErrorOf(tbl, username, password, confirm_password) ==
    IF username = "" \/ password = "" \/ confirm_password = "" THEN SignupEmpty
    ELSE IF password # confirm_password THEN SignupMismatch
    ELSE IF rows_of(tbl, username) # {} THEN SignupTaken
    ELSE NoAlert

\* C8 (Spec): a sign-up with an empty field, with two different passwords or with a
\* username that has a row is made from LoggedOut/SignUp, changes neither the store,
\* the session nor the rendered page, and shows the error of its case.
C8_SignupFailure ==
    [][(last'.event = "signup"
          /\ SignupErrorOf(users, last'.username, last'.password, last'.confirm)
                 # NoAlert) =>
         LET s == last'.session IN
         /\ session_state[s] = LoggedOutSignUp
         /\ users' = users
         /\ session_state' = session_state
         /\ view' = view
         /\ ~last'.ret
         /\ last'.alert = SignupErrorOf(users, last'.username, last'.password,
                                        last'.confirm)]_vars

\* A sign-up refused because the username has a row, the row being left as it was.
C8_Witness ==
    /\ last.event = "signup"
    /\ last.alert = SignupTaken
    /\ Cardinality(rows_of(users, last.username)) = 1
    /\ session_state[last.session] = LoggedOutSignUp

\* C9 (Spec): a sign-up with all fields filled, equal passwords and a username without
\* a row is made from LoggedOut/SignUp, adds the row of that username with the hash of
\* the password and leaves the session at LoggedOut/Login with no 'username' key.
C9_SignupSuccess ==
    [][(last'.event = "signup"
          /\ SignupErrorOf(users, last'.username, last'.password, last'.confirm)
                 = NoAlert) =>
         LET s == last'.session IN
         /\ session_state[s] = LoggedOutSignUp
         /\ last'.ret
         /\ users' = users \cup {[username |-> last'.username,
                                  password_hash |-> hash_password(last'.password)]}
         /\ session_state'[s] = LoggedOutLogin
         /\ "username" \notin DOMAIN session_state'[s]
         /\ view'[s] = "show_login_page"]_vars

\* A sign-up accepted: the row is in the table and the session is at the login page.
C9_Witness ==
    /\ last.event = "signup"
    /\ last.ret
    /\ [username |-> last.username, password_hash |-> hash_password(last.password)]
           \in users
    /\ session_state[last.session] = LoggedOutLogin

LogOutEvents == {"dashboard_log_out", "manage_log_out"}

\* C10 (Spec): every logged-in session is on the dashboard or the account page, both
\* of which offer Log Out; a log out leaves the session at LoggedOut/Login with no
\* 'username' key, the login page rendered, and the store as it was.
C10_LogOut ==
    /\ [](\A s \in Sessions :
             session_state[s].logged_in =>
                 \/ ENABLED dashboard_select(s, "Log Out")
                 \/ ENABLED manage_log_out_click(s))
    /\ [][last'.event \in LogOutEvents =>
            LET s == last'.session IN
            /\ session_state[s].logged_in
            /\ session_state'[s] = LoggedOutLogin
            /\ "username" \notin DOMAIN session_state'[s]
            /\ view'[s] = "show_login_page"
            /\ users' = users]_vars

\* A log out from the account page.
C10_Witness ==
    /\ last.event = "manage_log_out"
    /\ session_state[last.session] = LoggedOutLogin
    /\ users # {}

\* C11 (Spec): a session on the account page can confirm the deletion of its account:
\* some event removes the row of its username and leaves it at LoggedOut/Login with
\* no 'username' key.
C11_DeleteAccountOffered ==
    \A s \in Sessions :
        view[s] = "show_manage_account_page" =>
            ENABLED (/\ Next
                     /\ users' = delete_user(users, session_state[s]["username"]).users
                     /\ users' # users
                     /\ session_state'[s] = LoggedOutLogin)

\* C12 as stated (SpecStore): after update_user_password(u, p_new) of a username that
\* had password p_old, check_user_password accepts p_new and refuses p_old.
C12_UpdateRefusesOld ==
    [][last'.event = "update_user_password" =>
         \A p_old \in Passwords :
             check_user_password(users, last'.username, p_old) =>
                 /\ check_user_password(users', last'.username, last'.password)
                 /\ ~check_user_password(users', last'.username, p_old)]_vars

\* C12 amended (SpecStore): after update_user_password(u, p_new) of a username that had
\* password p_old, check_user_password accepts p_new, and refuses p_old unless
\* p_old = p_new; every other password is refused as well.
C12_UpdateThenVerify ==
    [][last'.event = "update_user_password" =>
         \A p_old \in Passwords :
             check_user_password(users, last'.username, p_old) =>
                 /\ check_user_password(users', last'.username, last'.password)
                 /\ \A q \in Passwords :
                        check_user_password(users', last'.username, q)
                            = (q = last'.password)
                 /\ (p_old # last'.password
                        => ~check_user_password(users', last'.username, p_old))]_vars

\* An update that matched the one row of its username, whose new password now checks
\* while another password does not.
C12_Witness ==
    /\ last.event = "update_user_password"
    /\ last.rowcount = 1
    /\ check_user_password(users, last.username, last.password)
    /\ \E q \in Passwords : ~check_user_password(users, last.username, q)

\* C13 (SpecStore): after delete_user(u) the username has no row, check_user_password
\* refuses every password for it, and a create_user(u, p) then returns True and makes
\* check_user_password accept p and nothing else.
C13_DeleteThenCreate ==
    [][/\ last'.event = "delete_user" =>
            /\ rows_of(users', last'.username) = {}
            /\ \A p \in Passwords :
                   /\ ~check_user_password(users', last'.username, p)
                   /\ create_user(users', last'.username, p).ret
                   /\ \A q \in Passwords :
                          check_user_password(create_user(users', last'.username, p).users,
                                              last'.username, q) = (q = p)
       /\ (last.event = "delete_user" /\ last'.event = "create_user"
              /\ last'.username = last.username) =>
            /\ last'.ret
            /\ check_user_password(users', last'.username, last'.password)]_vars

\* A delete_user that removed a row, other rows staying.
C13_Witness ==
    /\ last.event = "delete_user"
    /\ last.rowcount = 1
    /\ rows_of(users, last.username) = {}
    /\ users # {}

\* C14 (SpecStore): check_user_password is False for every password of a username
\* without a row, and a call of it leaves the table as it was.
C14_VerifyUnknown ==
    /\ [](\A u \in Usernames :
             rows_of(users, u) = {} =>
                 \A p \in Passwords : ~check_user_password(users, u, p))
    /\ [][last'.event = "check_user_password" =>
            /\ users' = users
            /\ (rows_of(users, last'.username) = {} => ~last'.ret)]_vars

\* A check refused for a username that has no row while another username has one.
C14_Witness ==
    /\ last.event = "check_user_password"
    /\ rows_of(users, last.username) = {}
    /\ ~last.ret
    /\ users # {}

\* C15 (SpecStore): update_user_password of a username without a row returns True,
\* leaves the table as it was, creates no row, and the new password does not check.
C15_UpdateMissingNoOp ==
    [][(last'.event = "update_user_password"
           /\ rows_of(users, last'.username) = {}) =>
         /\ last'.ret
         /\ last'.rowcount = 0
         /\ users' = users
         /\ rows_of(users', last'.username) = {}
         /\ ~check_user_password(users', last'.username, last'.password)]_vars

\* An update that matched no row, made while another username has a row.
C15_Witness ==
    /\ last.event = "update_user_password"
    /\ last.rowcount = 0
    /\ last.ret
    /\ rows_of(users, last.username) = {}
    /\ users # {}

\* C16 (SpecStore): delete_user returns True with or without a row, leaves the table
\* as it was when the username has none, deleting again changes nothing more, and
\* every row of another username stays.
C16_DeleteIdempotent ==
    [][last'.event = "delete_user" =>
         /\ last'.ret
         /\ (rows_of(users, last'.username) = {} => users' = users)
         /\ delete_user(users', last'.username).users = users'
         /\ delete_user(users', last'.username).ret
         /\ users' = {r \in users : r.username # last'.username}]_vars

\* A delete_user of a username without a row, another username's row being there.
C16_Witness ==
    /\ last.event = "delete_user"
    /\ last.rowcount = 0
    /\ last.ret
    /\ users # {}

\* C17 (Spec): a refused login looks the same whether or not the username has a row.
\* check_user_password is False both on the table without a row of the username and
\* on the table where the username has a row with another password, and every refused
\* login leaves the same session state and rendered page and shows the same error.
C17_LoginFailureUniform ==
    [][(last'.event = "login" /\ ~last'.ret) =>
         LET s == last'.session
             u == last'.username
             p == last'.password
             without == delete_user(users, u).users
         IN  /\ ~check_user_password(without, u, p)
             /\ \A q \in Passwords \ {p} :
                    ~check_user_password(
                         without \cup {[username |-> u,
                                        password_hash |-> hash_password(q)]}, u, p)
             /\ <<session_state'[s], view'[s], last'.alert>>
                    = <<LoggedOutLogin, "show_login_page", LoginError>>
             /\ users' = users]_vars

\* A login refused for a typed username that has no row, while another username has.
C17_Witness ==
    /\ last.event = "login"
    /\ ~last.ret
    /\ last.username # ""
    /\ rows_of(users, last.username) = {}
    /\ users # {}
    /\ last.alert = LoginError

\* C18 (Spec): a password change is submitted from LoggedIn/ManageAccount and leaves
\* the session and the rendered page as they were.  With two equal non-empty fields it
\* calls update_user_password for the session's own username: that row gets the hash
\* of the new password and every other row stays.  Otherwise the table is unchanged
\* and update_user_password is not called.
C18_ChangePassword ==
    [][last'.event = "update_password" =>
         LET s == last'.session
             own == session_state[s]["username"]
             p == last'.password
             p2 == last'.confirm
         IN  /\ session_state[s].logged_in
             /\ session_state[s].page = "Manage Account"
             /\ session_state' = session_state
             /\ view' = view
             /\ IF p # "" /\ p2 # "" /\ p = p2
                THEN /\ last'.username = own
                     /\ last'.alert = UpdateSuccess
                     /\ rows_of(users', own)
                            = {[username |-> own, password_hash |-> hash_password(p)]}
                     /\ {r \in users' : r.username # own}
                            = {r \in users : r.username # own}
                ELSE /\ last'.username = NoInput
                     /\ last'.alert = IF p = "" \/ p2 = "" THEN UpdateEmpty
                                      ELSE UpdateMismatch
                     /\ users' = users]_vars

\* A password changed while another username has a row.
C18_Witness ==
    /\ last.event = "update_password"
    /\ last.alert = UpdateSuccess
    /\ session_state[last.session]["username"] = last.username
    /\ session_state[last.session].page = "Manage Account"
    /\ check_user_password(users, last.username, last.password)
    /\ \E r \in users : r.username # last.username

\* The page a navigation event leaves from and the page it sets.
NavigationOf(e) ==
    CASE e.event = "sign_up_click"     -> [from |-> "Login", to |-> "Sign Up"]
      [] e.event = "back_to_login"     -> [from |-> "Sign Up", to |-> "Login"]
      [] e.event = "select"            -> [from |-> "Dashboard", to |-> "Manage Account"]
      [] e.event = "back_to_dashboard" -> [from |-> "Manage Account", to |-> "Dashboard"]

IsNavigation(e) ==
    \/ e.event \in {"sign_up_click", "back_to_login", "back_to_dashboard"}
    \/ e.event = "select" /\ e.username = "Manage Account"

\* C19 (Spec): sign-up, back-to-login, manage-account and back-to-dashboard change the
\* page of their session, from and to the pages of the transition table, and nothing
\* else: logged_in, the 'username' key and the table stay; the first two are taken
\* logged out, the last two logged in.
C19_Navigation ==
    [][IsNavigation(last') =>
         LET s == last'.session
             nav == NavigationOf(last')
         IN  /\ session_state[s].page = nav.from
             /\ session_state'[s].page = nav.to
             /\ session_state[s].logged_in = (nav.from \in {"Dashboard", "Manage Account"})
             /\ session_state'[s].logged_in = session_state[s].logged_in
             /\ DOMAIN session_state'[s] = DOMAIN session_state[s]
             /\ \A k \in DOMAIN session_state[s] \ {"page"} :
                    session_state'[s][k] = session_state[s][k]
             /\ \A o \in Sessions \ {s} : session_state'[o] = session_state[o]
             /\ view'[s] = main_app_router(session_state'[s])
             /\ view'[s] # "nothing"
             /\ users' = users]_vars

\* The account page entered from the dashboard, the session still logged in as before.
C19_Witness ==
    /\ last.event = "select"
    /\ last.username = "Manage Account"
    /\ session_state[last.session].logged_in
    /\ "username" \in DOMAIN session_state[last.session]
    /\ view[last.session] = "show_manage_account_page"

----------------------------------------------------------------------------
(* SpecShared: several browser sessions on one users.db.  The handlers are  *)
(* those of Spec, one per step; each session has its own st.session_state.  *)
(* The forms are submitted with typed (non-empty) usernames and passwords   *)
(* and with the confirmation equal to the password.                         *)

SharedSessions == Clients
TypedUsernames == Usernames \ {""}
TypedPasswords == Passwords \ {""}

InitShared ==
    /\ users = init_db
    /\ session_state = [s \in SharedSessions |-> [logged_in |-> FALSE, page |-> "Login"]]
    /\ view = [s \in SharedSessions |-> "show_login_page"]
    /\ last = Event("start", NoSession, NoInput, NoInput, NoInput, TRUE, NoAlert)
    /\ created = [u \in Usernames |-> NoInput]
    /\ call = [c \in Clients |-> Idle]
    /\ db_lock = NoSession

NextShared ==
    \/ \E s \in SharedSessions, u \in TypedUsernames, p \in TypedPasswords :
          login_submit(s, u, p)
    \/ \E s \in SharedSessions : login_sign_up_click(s)
    \/ \E s \in SharedSessions, u \in TypedUsernames, p \in TypedPasswords :
          signup_submit(s, u, p, p)
    \/ \E s \in SharedSessions : signup_back_click(s)
    \/ \E s \in SharedSessions, selected \in {"Manage Account", "Log Out"} :
          dashboard_select(s, selected)
    \/ \E s \in SharedSessions : manage_back_click(s)
    \/ \E s \in SharedSessions : manage_log_out_click(s)
    \/ \E s \in SharedSessions, p \in TypedPasswords : manage_update_submit(s, p, p)

SpecShared == InitShared /\ [][NextShared]_vars

\* C20 (SpecShared): in every reachable state of several sessions on one table, the
\* username of every logged-in session has a row, and a password change that reported
\* success was made for a username that has a row.
C20_LoggedInHasRow ==
    /\ \A s \in SharedSessions :
           session_state[s].logged_in =>
               /\ "username" \in DOMAIN session_state[s]
               /\ rows_of(users, session_state[s]["username"]) # {}
    /\ (last.event = "update_password" /\ last.alert = UpdateSuccess)
           => rows_of(users, last.username) # {}

\* Two sessions logged in as one username, one of them having just changed its
\* password.
C20_Witness ==
    \E s1, s2 \in SharedSessions :
        /\ s1 # s2
        /\ session_state[s1].logged_in /\ session_state[s2].logged_in
        /\ session_state[s1]["username"] = session_state[s2]["username"]
        /\ last.event = "update_password"
        /\ last.session = s1
        /\ last.alert = UpdateSuccess
        /\ last.username = session_state[s2]["username"]

----------------------------------------------------------------------------
(* The pairs (logged_in, page) and the view the router selects *)

\* The view the router selects for each of the four pairs a session can be in.
ViewOfPair ==
    <<FALSE, "Login">>          :> "show_login_page"
 @@ <<FALSE, "Sign Up">>        :> "show_signup_page"
 @@ <<TRUE, "Dashboard">>       :> "build_dashboard"
 @@ <<TRUE, "Manage Account">>  :> "show_manage_account_page"

\* C21 (Spec): in every reachable state the pair (logged_in, page) of every session
\* is one of (False, Login), (False, Sign Up), (True, Dashboard), (True, Manage
\* Account); the router selects the one view of that pair and never falls through
\* to rendering nothing; and logged_in goes from False to True only in a login whose
\* check_user_password returned True.
C21_PairAndRouter ==
    /\ [](\A s \in Sessions :
             LET pair == <<session_state[s].logged_in, session_state[s].page>> IN
             /\ pair \in DOMAIN ViewOfPair
             /\ main_app_router(session_state[s]) = ViewOfPair[pair]
             /\ main_app_router(session_state[s]) # "nothing"
             /\ view[s] = main_app_router(session_state[s]))
    /\ [][\A s \in Sessions :
             (~session_state[s].logged_in /\ session_state'[s].logged_in) =>
                 /\ last'.event = "login"
                 /\ last'.session = s
                 /\ last'.ret
                 /\ check_user_password(users, last'.username, last'.password)
                 /\ view[s] = "show_login_page"]_vars

\* A session that an accepted login has just taken from (False, Login) to
\* (True, Dashboard), the router selecting build_dashboard for it.
C21_Witness ==
    /\ last.event = "login"
    /\ last.ret
    /\ <<session_state[last.session].logged_in, session_state[last.session].page>>
           = <<TRUE, "Dashboard">>
    /\ main_app_router(session_state[last.session]) = "build_dashboard"
    /\ view[last.session] = "build_dashboard"

====
